---- MODULE Spec2Model ----
(***************************************************************************)
(* Model of llvm_codegen.rs: the lowering driver generate_ir (signature    *)
(* pass, then one entry block, parameter slots and body per function), the *)
(* format translator wave_format_to_c, the type mapper                     *)
(* wave_type_to_llvm_type and the address resolver generate_address_ir.    *)
(*                                                                         *)
(* Types are sequences of layers, outermost first: a pointer to an 8-bit   *)
(* integer is <<[k |-> "ptr", n |-> 0], [k |-> "int", n |-> 8]>>.           *)
(* Text is a sequence of one-character strings.                            *)
(***************************************************************************)
EXTENDS Integers, Sequences, FiniteSets, TLC

VARIABLES
    \* generate_ir
    ast_nodes,            \* the input: &[ASTNode]
    pc,                   \* position of generate_ir / of the function under check
    si,                   \* index of the first loop over ast_nodes (lines 19-41)
    fi,                   \* index of the second loop over ast_nodes (lines 43-127)
    pi,                   \* index of the loop over parameters (lines 55-99)
    bi,                   \* index of the loop over body (lines 104-121)
    module,               \* the module: its functions, its globals, its name counter
    functions,            \* HashMap<String, FunctionValue>
    function,             \* the FunctionValue of the second loop's iteration
    builder,              \* the builder's position: [fn, blk]
    variables,            \* HashMap<String, VariableInfo>
    string_counter,
    loop_exit_stack,
    loop_continue_stack,
    ir,                   \* the returned String ("" until returned)
    panic,                \* the panic message ("" while none)
    calls,                \* what each generate_statement_ir call was passed and left
    \* wave_format_to_c
    format,
    arg_types,
    result,
    \* generate_address_ir
    expr,
    address

drvVars == <<ast_nodes, si, fi, pi, bi, functions, function, string_counter,
             loop_exit_stack, loop_continue_stack, ir, calls>>
fmtVars == <<format, arg_types, result>>
addrVars == <<expr, address>>
vars == <<ast_nodes, pc, si, fi, pi, bi, module, functions, function, builder,
          variables, string_counter, loop_exit_stack, loop_continue_stack, ir,
          panic, calls, format, arg_types, result, expr, address>>

(***************************************************************************)
(* Bounds                                                                  *)
(***************************************************************************)
MaxFuncs == 3         \* top-level nodes in the input
MaxFmtLen == 5        \* characters of a format string
MaxArgs == 2          \* argument types handed to wave_format_to_c
MaxDeref == 2         \* nesting of Deref in an address expression

(***************************************************************************)
(* IR types (inkwell's BasicTypeEnum) and surface types (WaveType)         *)
(***************************************************************************)
IntType(w) == <<[k |-> "int", n |-> w]>>
FloatType(w) == <<[k |-> "float", n |-> w]>>
PointerType(t) == <<[k |-> "ptr", n |-> 0]>> \o t
ArrayType(t, size) == <<[k |-> "array", n |-> size]>> \o t
PanicType(bits) == <<[k |-> "panic", n |-> bits]>>

Kind(t) == t[1].k
ElementType(t) == Tail(t)
Panicked(t) == t[Len(t)].k = "panic"

WInt(bits) == <<[tag |-> "Int", n |-> bits]>>
WUint(bits) == <<[tag |-> "Uint", n |-> bits]>>
WFloat(bits) == <<[tag |-> "Float", n |-> bits]>>
WBool == <<[tag |-> "Bool", n |-> 0]>>
WChar == <<[tag |-> "Char", n |-> 0]>>
WByte == <<[tag |-> "Byte", n |-> 0]>>
WString == <<[tag |-> "String", n |-> 0]>>
WPointer(inner) == <<[tag |-> "Pointer", n |-> 0]>> \o inner
WArray(inner, size) == <<[tag |-> "Array", n |-> size]>> \o inner

\* A float width the mapper accepts.
FloatWidthOk(bits) == bits \in {32, 64}

RECURSIVE wave_type_to_llvm_type(_)
wave_type_to_llvm_type(wave_type) ==
    LET h == wave_type[1] IN
    CASE h.tag = "Int" -> IntType(h.n)
      [] h.tag = "Uint" -> IntType(h.n)
      [] h.tag = "Float" -> IF FloatWidthOk(h.n) THEN FloatType(h.n) ELSE PanicType(h.n)
      [] h.tag = "Bool" -> IntType(1)
      [] h.tag = "Char" -> IntType(8)
      [] h.tag = "Byte" -> IntType(8)
      [] h.tag = "String" -> PointerType(IntType(8))
      [] h.tag = "Pointer" -> PointerType(wave_type_to_llvm_type(Tail(wave_type)))
      [] h.tag = "Array" -> ArrayType(wave_type_to_llvm_type(Tail(wave_type)), h.n)

(***************************************************************************)
(* wave_format_to_c                                                        *)
(***************************************************************************)
\* The match of lines 145-156 without the test of the pointee: every pointer
\* is taken for text.
FormatSpecifierAnyPointerIsText(arg_type) ==
    CASE Kind(arg_type) = "float" -> <<"%", "f">>
      [] Kind(arg_type) = "int" -> <<"%", "d">>
      [] Kind(arg_type) = "ptr" -> <<"%", "s">>
      [] OTHER -> <<"%", "d">>

\* The match of lines 145-156: the conversion specifier of one argument type.
FormatSpecifier(arg_type) ==
    CASE Kind(arg_type) = "float" -> <<"%", "f">>
      [] Kind(arg_type) = "int" -> <<"%", "d">>
      [] Kind(arg_type) = "ptr" ->
            IF Kind(ElementType(arg_type)) = "int" /\ ElementType(arg_type)[1].n = 8
            THEN <<"%", "s">>
            ELSE <<"%", "l", "d">>
      [] OTHER -> <<"%", "d">>

\* The while loop of lines 139-164 from character pos on (arg_index counts from 0).
RECURSIVE FormatScan(_, _, _, _, _)
FormatScan(fmt, types, pos, arg_index, acc) ==
    IF pos > Len(fmt) THEN acc
    ELSE LET c == fmt[pos] IN
         IF c = "{" /\ pos < Len(fmt) /\ fmt[pos + 1] = "}"
         THEN \* chars.next() has consumed the '}'
              IF arg_index < Len(types)
              THEN FormatScan(fmt, types, pos + 2, arg_index + 1,
                              acc \o FormatSpecifier(types[arg_index + 1]))
              ELSE FormatScan(fmt, types, pos + 2, arg_index, Append(acc, c))
         ELSE FormatScan(fmt, types, pos + 1, arg_index, Append(acc, c))

wave_format_to_c(fmt, types) == FormatScan(fmt, types, 1, 0, <<>>)

(***************************************************************************)
(* Values, instructions and the module (inkwell's Module and Builder)      *)
(***************************************************************************)
VoidType == <<[k |-> "void", n |-> 0]>>
NoValue == [vk |-> "none", ty |-> VoidType, a |-> 0, b |-> 0]

\* 2^w
RECURSIVE Pow2(_)
Pow2(w) == IF w = 0 THEN 1 ELSE 2 * Pow2(w - 1)

\* int_ty.const_int(v as u64, false): the low bits of v, as wide as the type.
ConstInt(int_ty, v) == [vk |-> "const_int", ty |-> int_ty, a |-> v % Pow2(int_ty[1].n), b |-> 0]
ConstFloat(float_ty, f) == [vk |-> "const_float", ty |-> float_ty, a |-> f, b |-> 0]
\* function.get_nth_param(i): the i-th argument (from 0) of function value fn.
ParamValue(m, fn, i) == [vk |-> "param", ty |-> m.funcs[fn].params[i + 1], a |-> fn, b |-> i]
\* The pointer an alloca yields: slot number id of function value fn.
SlotPointer(llvm_type, fn, id) == [vk |-> "alloca", ty |-> PointerType(llvm_type), a |-> fn, b |-> id]
\* The address of the first element of global g.
GepValue(g) == [vk |-> "gep", ty |-> PointerType(IntType(8)), a |-> g, b |-> 0]
\* The value a load from pointer p yields.
LoadValue(p) == [vk |-> "load", ty |-> ElementType(p.ty), a |-> p.a, b |-> p.b]

Instr(op, res, x, y) == [op |-> op, res |-> res, x |-> x, y |-> y]
IsTerminator(ins) == ins.op = "ret"

EmptyModule == [funcs |-> <<>>, globals |-> <<>>, last_unique |-> 0, values |-> 0]

\* Whether the module's symbol table holds name already.
Taken(m, name) ==
    \/ \E i \in 1..Len(m.funcs) : m.funcs[i].name = name
    \/ \E i \in 1..Len(m.globals) : m.globals[i].name = name

\* The name LLVM gives a new global value: the one asked for, or on a clash the
\* name with "." and the next number of the module's counter.
UniqueName(m, name) ==
    IF Taken(m, name) THEN name \o "." \o ToString(m.last_unique + 1) ELSE name
Renamed(m, name) == IF Taken(m, name) THEN m.last_unique + 1 ELSE m.last_unique

\* module.add_function(name, fn_type, None)
AddFunction(m, name, param_types, ret) ==
    [m EXCEPT !.funcs = Append(@, [name |-> UniqueName(m, name), params |-> param_types,
                                   ret |-> ret, blocks |-> <<>>]),
              !.last_unique = Renamed(m, name)]

\* module.add_global(array type, None, name), set_initializer, set_constant
AddGlobal(m, name, bytes, constant) ==
    [m EXCEPT !.globals = Append(@, [name |-> UniqueName(m, name), len |-> Len(bytes),
                                     init |-> bytes, constant |-> constant]),
              !.last_unique = Renamed(m, name)]

\* context.append_basic_block(function, label)
AppendBlock(m, fn, label) ==
    [m EXCEPT !.funcs[fn].blocks = Append(@, [label |-> label, instrs |-> <<>>])]

\* builder.build_*: the instruction is appended to the block the builder is at.
Emit(m, cur, ins) ==
    [m EXCEPT !.funcs[cur.fn].blocks[cur.blk].instrs = Append(@, ins),
              !.values = @ + 1]

NoCursor == [fn |-> 0, blk |-> 0]

(***************************************************************************)
(* The variable environment                                                *)
(***************************************************************************)
\* HashMap::new()
EmptyMap == <<>>
\* map.insert(key, value): an entry of the same key is replaced.
Insert(map, key, value) ==
    [n \in DOMAIN map \cup {key} |-> IF n = key THEN value ELSE map[n]]
VariableInfo(ptr, mutability) == [ptr |-> ptr, mutability |-> mutability]

(***************************************************************************)
(* The input: ASTNode, FunctionNode, ParameterNode, Value                  *)
(***************************************************************************)
NoDefault == [kind |-> "None", v |-> 0, s |-> <<>>]
IntValue(v) == [kind |-> "Int", v |-> v, s |-> <<>>]
FloatValue(f) == [kind |-> "Float", v |-> f, s |-> <<>>]
TextValue(s) == [kind |-> "Text", v |-> 0, s |-> s]

Parameter(name, param_type, initial_value) ==
    [name |-> name, param_type |-> param_type, initial_value |-> initial_value]

\* Option<WaveType>: None is the empty sequence.
NoType == <<>>

FunctionNode(name, parameters, return_type, body) ==
    [node |-> "Function", name |-> name, parameters |-> parameters,
     return_type |-> return_type, body |-> body]
\* A top-level node that is no function declaration.
OtherNode == [node |-> "Statement", name |-> "", parameters |-> <<>>,
              return_type |-> NoType, body |-> <<>>]

\* Body nodes: a variable declaration, a statement (return, print), or a node
\* the driver does not accept in a body.
VariableNode(name) == [node |-> "Variable", stmt |-> "decl", name |-> name]
ReturnNode == [node |-> "Statement", stmt |-> "return", name |-> ""]
PrintNode == [node |-> "Statement", stmt |-> "print", name |-> ""]
NestedFunctionNode == [node |-> "Function", stmt |-> "", name |-> ""]

\* The bytes of "hi".
Hi == <<104, 105>>

FuncPool ==
    { FunctionNode("f", <<Parameter("a", WInt(16), NoDefault)>>, NoType,
                   <<VariableNode("v")>>),
      FunctionNode("f", <<Parameter("s", WString, TextValue(Hi)),
                          Parameter("a", WInt(16), IntValue(5))>>, WInt(16),
                   <<ReturnNode>>),
      FunctionNode("g", <<Parameter("s", WString, TextValue(Hi)),
                          Parameter("t", WString, TextValue(Hi)),
                          Parameter("b", WUint(8), NoDefault)>>, NoType,
                   <<PrintNode, ReturnNode>>),
      FunctionNode("g", <<Parameter("a", WInt(16), TextValue(Hi)),
                          Parameter("x", WFloat(32), IntValue(5)),
                          Parameter("p", WPointer(WInt(16)), FloatValue(2))>>, NoType,
                   <<VariableNode("w"), PrintNode>>),
      FunctionNode("g", <<Parameter("x", WFloat(64), FloatValue(2)),
                          Parameter("p", WPointer(WInt(16)), TextValue(Hi))>>,
                   WPointer(WBool), <<PrintNode, VariableNode("w"), ReturnNode>>),
      FunctionNode("h", <<>>, WInt(16), <<ReturnNode>>),
      FunctionNode("h", <<>>, NoType, <<>>),
      FunctionNode("h", <<Parameter("a", WChar, NoDefault)>>, WArray(WByte, 2), <<>>),
      FunctionNode("h", <<Parameter("x", WFloat(16), NoDefault)>>, NoType, <<>>),
      FunctionNode("h", <<Parameter("a", WInt(16), NoDefault)>>, WInt(16),
                   <<VariableNode("v"), NestedFunctionNode>>),
      OtherNode }

RECURSIVE SeqsUpTo(_, _)
SeqsUpTo(S, n) ==
    IF n = 0 THEN {<<>>}
    ELSE LET shorter == SeqsUpTo(S, n - 1) IN
         shorter \cup {Append(q, x) : q \in shorter, x \in S}

Inputs == SeqsUpTo(FuncPool, MaxFuncs)

(***************************************************************************)
(* generate_statement_ir, the statement emitter the driver calls            *)
(***************************************************************************)
EmitterState(m, vs, counter, exits, conts) ==
    [module |-> m, variables |-> vs, string_counter |-> counter,
     loop_exit_stack |-> exits, loop_continue_stack |-> conts]

\* A local declaration: one more slot, bound as a mutable variable.
EmitDeclaration(m, cur, stmt, vs) ==
    LET ptr == SlotPointer(IntType(16), cur.fn, m.values + 1) IN
    [module |-> Emit(m, cur, Instr("alloca", ptr, NoValue, NoValue)),
     variables |-> Insert(vs, stmt.name, VariableInfo(ptr, "Var"))]

\* A return statement: a return terminator in the block the builder is at.
EmitReturn(m, cur) == Emit(m, cur, Instr("ret", NoValue, NoValue, NoValue))

\* A statement with a string literal: a global named from the counter.
EmitPrint(m, counter) == AddGlobal(m, "str_" \o ToString(counter), <<0>>, TRUE)

generate_statement_ir(m, cur, counter, stmt, vs, exits, conts) ==
    CASE stmt.stmt = "decl" ->
            LET d == EmitDeclaration(m, cur, stmt, vs) IN
            EmitterState(d.module, d.variables, counter, exits, conts)
      [] stmt.stmt = "return" ->
            EmitterState(EmitReturn(m, cur), vs, counter, exits, conts)
      [] stmt.stmt = "print" ->
            EmitterState(EmitPrint(m, counter), vs, counter + 1, exits, conts)

(***************************************************************************)
(* generate_ir: the first loop, lines 19-41                                *)
(***************************************************************************)
ParamTypes(parameters) ==
    [i \in 1..Len(parameters) |-> wave_type_to_llvm_type(parameters[i].param_type)]

\* The return type of the signature: lines 25-36.
ReturnType(return_type) ==
    IF return_type = NoType THEN VoidType ELSE wave_type_to_llvm_type(return_type)

\* The panic of one iteration of the first loop ("" when it has none).
SignaturePanic(ast) ==
    LET param_types == ParamTypes(ast.parameters) IN
    IF \E i \in 1..Len(param_types) : Panicked(param_types[i])
    THEN "Unsupported float bit width"
    ELSE IF ast.return_type = NoType THEN ""
    ELSE IF Panicked(ReturnType(ast.return_type)) THEN "Unsupported float bit width"
    ELSE IF Kind(ReturnType(ast.return_type)) \in {"int", "float", "ptr"} THEN ""
    ELSE "Unsupported return type"

\* The second loop starts once the first has visited node n of n.
PcAfterSignatureEarly(i, n) == "bodies"
PcAfterSignature(i, n) == IF i >= n THEN "bodies" ELSE "sigs"

SigStep ==
    /\ pc = "sigs"
    /\ si <= Len(ast_nodes)
    /\ LET ast == ast_nodes[si] IN
       IF ast.node # "Function"
       THEN /\ si' = si + 1
            /\ pc' = PcAfterSignature(si, Len(ast_nodes))
            /\ UNCHANGED <<module, functions, panic>>
       ELSE IF SignaturePanic(ast) # ""
       THEN /\ pc' = "panic"
            /\ panic' = SignaturePanic(ast)
            /\ UNCHANGED <<si, module, functions>>
       ELSE /\ module' = AddFunction(module, ast.name, ParamTypes(ast.parameters),
                                     ReturnType(ast.return_type))
            /\ functions' = Insert(functions, ast.name, Len(module.funcs) + 1)
            /\ si' = si + 1
            /\ pc' = PcAfterSignature(si, Len(ast_nodes))
            /\ panic' = panic
    /\ UNCHANGED <<ast_nodes, fi, pi, bi, function, builder, variables, string_counter,
                   loop_exit_stack, loop_continue_stack, ir, calls, fmtVars, addrVars>>

(***************************************************************************)
(* generate_ir: the second loop, lines 43-127                              *)
(***************************************************************************)
\* Lines 50-53: the state the lowering of one function starts from.
StaleVariables == variables
FreshVariables == EmptyMap
FreshCounter == 0
FreshStack == <<>>

\* Lines 44-53: the entry block is opened and the per-function state created.
OpenFunction ==
    /\ pc = "bodies"
    /\ fi <= Len(ast_nodes)
    /\ LET ast == ast_nodes[fi] IN
       IF ast.node # "Function"
       THEN /\ fi' = fi + 1
            /\ UNCHANGED <<pc, pi, bi, module, function, builder, variables,
                           string_counter, loop_exit_stack, loop_continue_stack, panic>>
       ELSE IF ast.name \notin DOMAIN functions
       THEN /\ pc' = "panic"
            /\ panic' = "unwrap on None"
            /\ UNCHANGED <<fi, pi, bi, module, function, builder, variables,
                           string_counter, loop_exit_stack, loop_continue_stack>>
       ELSE LET fn == functions[ast.name] IN
            /\ function' = fn
            /\ module' = AppendBlock(module, fn, "entry")
            /\ builder' = [fn |-> fn, blk |-> Len(module.funcs[fn].blocks) + 1]
            /\ variables' = FreshVariables
            /\ string_counter' = FreshCounter
            /\ loop_exit_stack' = FreshStack
            /\ loop_continue_stack' = FreshStack
            /\ pi' = 1
            /\ bi' = 1
            /\ pc' = "lower"
            /\ UNCHANGED <<fi, panic>>
    /\ UNCHANGED <<ast_nodes, si, functions, ir, calls, fmtVars, addrVars>>

\* Lines 59-86: the initial value of parameter param, the i-th (from 0) of the
\* declaration, whose slot has type llvm_type. some is FALSE for None.
InitValue(m, cur, fn, i, param, llvm_type) ==
    LET initial == param.initial_value IN
    IF initial.kind = "None"
    THEN IF i < Len(m.funcs[fn].params)
         THEN [module |-> m, some |-> TRUE, value |-> ParamValue(m, fn, i), panic |-> ""]
         ELSE [module |-> m, some |-> FALSE, value |-> NoValue, panic |-> "unwrap on None"]
    ELSE IF initial.kind = "Int" /\ Kind(llvm_type) = "int"
    THEN [module |-> m, some |-> TRUE, value |-> ConstInt(llvm_type, initial.v), panic |-> ""]
    ELSE IF initial.kind = "Float" /\ Kind(llvm_type) = "float"
    THEN [module |-> m, some |-> TRUE, value |-> ConstFloat(llvm_type, initial.v), panic |-> ""]
    ELSE IF initial.kind = "Text" /\ Kind(llvm_type) = "ptr"
    THEN LET bytes == Append(initial.s, 0)
             m1 == AddGlobal(m, "param_str_" \o param.name, bytes, TRUE)
             gep == GepValue(Len(m1.globals))
         IN [module |-> Emit(m1, cur, Instr("gep", gep, NoValue, NoValue)),
             some |-> TRUE, value |-> gep, panic |-> ""]
    ELSE [module |-> m, some |-> FALSE, value |-> NoValue, panic |-> ""]

\* Lines 55-99: one iteration of the loop over the parameters.
ParamStep ==
    /\ pc = "lower"
    /\ pi <= Len(ast_nodes[fi].parameters)
    /\ LET param == ast_nodes[fi].parameters[pi]
           llvm_type == wave_type_to_llvm_type(param.param_type)
           alloca == SlotPointer(llvm_type, builder.fn, module.values + 1)
           m1 == Emit(module, builder, Instr("alloca", alloca, NoValue, NoValue))
           init_value == InitValue(m1, builder, function, pi - 1, param, llvm_type)
       IN IF init_value.panic # ""
          THEN /\ pc' = "panic"
               /\ panic' = init_value.panic
               /\ module' = init_value.module
               /\ UNCHANGED <<pi, variables>>
          ELSE /\ module' = IF init_value.some
                            THEN Emit(init_value.module, builder,
                                      Instr("store", NoValue, alloca, init_value.value))
                            ELSE init_value.module
               /\ variables' = Insert(variables, param.name, VariableInfo(alloca, "Let"))
               /\ pi' = pi + 1
               /\ UNCHANGED <<pc, panic>>
    /\ UNCHANGED <<ast_nodes, si, fi, bi, functions, function, builder, string_counter,
                   loop_exit_stack, loop_continue_stack, ir, calls, fmtVars, addrVars>>

\* Lines 104-121: one iteration of the loop over the body.
StmtStep ==
    /\ pc = "lower"
    /\ pi > Len(ast_nodes[fi].parameters)
    /\ bi <= Len(ast_nodes[fi].body)
    /\ LET stmt == ast_nodes[fi].body[bi] IN
       IF stmt.node \in {"Variable", "Statement"}
       THEN LET passed == EmitterState(module, variables, string_counter,
                                       loop_exit_stack, loop_continue_stack)
                left == generate_statement_ir(module, builder, string_counter, stmt,
                            variables, loop_exit_stack, loop_continue_stack)
            IN /\ module' = left.module
               /\ variables' = left.variables
               /\ string_counter' = left.string_counter
               /\ loop_exit_stack' = left.loop_exit_stack
               /\ loop_continue_stack' = left.loop_continue_stack
               /\ calls' = Append(calls, [decl |-> fi, stmt |-> bi, passed |-> passed,
                                          left |-> left])
               /\ bi' = bi + 1
               /\ UNCHANGED <<pc, panic>>
       ELSE /\ pc' = "panic"
            /\ panic' = "Unsupported ASTNode in function body"
            /\ UNCHANGED <<bi, module, variables, string_counter, loop_exit_stack,
                           loop_continue_stack, calls>>
    /\ UNCHANGED <<ast_nodes, si, fi, pi, functions, function, builder, ir,
                   fmtVars, addrVars>>

\* Line 102: did_return is set once and never again.
did_return == FALSE

\* Lines 101-126: the implicit return, and the end of the iteration.
CloseFunction ==
    /\ pc = "lower"
    /\ pi > Len(ast_nodes[fi].parameters)
    /\ bi > Len(ast_nodes[fi].body)
    /\ LET is_void_fn == ast_nodes[fi].return_type = NoType IN
       module' = IF ~did_return /\ is_void_fn
                 THEN Emit(module, builder, Instr("ret", NoValue, NoValue, NoValue))
                 ELSE module
    /\ fi' = fi + 1
    /\ pc' = "bodies"
    /\ UNCHANGED <<ast_nodes, si, pi, bi, functions, function, builder, variables,
                   string_counter, loop_exit_stack, loop_continue_stack, ir, panic,
                   calls, fmtVars, addrVars>>

\* Line 129: module.print_to_string()
Finish ==
    /\ pc = "bodies"
    /\ fi > Len(ast_nodes)
    /\ ir' = <<module>>
    /\ pc' = "done"
    /\ UNCHANGED <<ast_nodes, si, fi, pi, bi, module, functions, function, builder,
                   variables, string_counter, loop_exit_stack, loop_continue_stack,
                   panic, calls, fmtVars, addrVars>>

Idle ==
    /\ ast_nodes = <<>> /\ si = 1 /\ fi = 1 /\ pi = 1 /\ bi = 1
    /\ functions = EmptyMap /\ function = 0
    /\ string_counter = 0 /\ loop_exit_stack = <<>> /\ loop_continue_stack = <<>>
    /\ ir = <<>> /\ calls = <<>>

Init ==
    /\ ast_nodes \in Inputs
    /\ pc = PcAfterSignature(0, Len(ast_nodes))
    /\ si = 1 /\ fi = 1 /\ pi = 1 /\ bi = 1
    /\ module = EmptyModule
    /\ functions = EmptyMap
    /\ function = 0
    /\ builder = NoCursor
    /\ variables = EmptyMap
    /\ string_counter = 0 /\ loop_exit_stack = <<>> /\ loop_continue_stack = <<>>
    /\ ir = <<>> /\ panic = "" /\ calls = <<>>
    /\ format = <<>> /\ arg_types = <<>> /\ result = <<>>
    /\ expr = <<>> /\ address = NoValue

Next == SigStep \/ OpenFunction \/ ParamStep \/ StmtStep \/ CloseFunction \/ Finish

Spec == Init /\ [][Next]_vars

(***************************************************************************)
(* wave_format_to_c applied to every format string and argument-type list  *)
(* within the bounds                                                       *)
(***************************************************************************)
FmtChars == {"{", "}", "a"}
FmtTypes == { FloatType(32), IntType(32), PointerType(IntType(8)),
              PointerType(IntType(32)), PointerType(FloatType(32)),
              ArrayType(IntType(8), 2) }

InitFmt ==
    /\ Idle
    /\ pc = "fmt"
    /\ module = EmptyModule /\ builder = NoCursor /\ variables = EmptyMap
    /\ panic = ""
    /\ format \in SeqsUpTo(FmtChars, MaxFmtLen)
    /\ arg_types \in SeqsUpTo(FmtTypes, MaxArgs)
    /\ result = <<>>
    /\ expr = <<>> /\ address = NoValue

Translate ==
    /\ pc = "fmt"
    /\ result' = wave_format_to_c(format, arg_types)
    /\ pc' = "done"
    /\ UNCHANGED <<drvVars, module, builder, variables, panic, format, arg_types,
                   addrVars>>

NextFmt == Translate

SpecFmt == InitFmt /\ [][NextFmt]_vars

(***************************************************************************)
(* generate_address_ir, lines 190-221                                      *)
(***************************************************************************)
\* Expression: Deref layers around a leaf, outermost first.
VariableExpr(name) == <<[tag |-> "Variable", name |-> name]>>
LiteralExpr == <<[tag |-> "Literal", name |-> ""]>>
DerefExpr(inner) == <<[tag |-> "Deref", name |-> ""]>> \o inner

AddressResult(a, m, msg) == [address |-> a, module |-> m, panic |-> msg]

\* Lines 205-217 for a bound variable: the load, and the pointer it yields.
DerefBoundNoLoad(ptr_to_ptr, m, cur) == AddressResult(ptr_to_ptr, m, "")
DerefBound(ptr_to_ptr, m, cur) ==
    LET actual_ptr == LoadValue(ptr_to_ptr)
        m1 == Emit(m, cur, Instr("load", actual_ptr, ptr_to_ptr, NoValue))
    IN IF Kind(actual_ptr.ty) = "ptr"
       THEN AddressResult(actual_ptr, m1, "")
       ELSE AddressResult(NoValue, m1, "expected the PointerValue variant")

generate_address_ir(e, vs, m, cur) ==
    IF e[1].tag = "Variable"
    THEN IF e[1].name \in DOMAIN vs
         THEN AddressResult(vs[e[1].name].ptr, m, "")
         ELSE AddressResult(NoValue, m, "Variable not found")
    ELSE IF e[1].tag = "Deref"
    THEN LET inner_expr == Tail(e) IN
         IF inner_expr[1].tag = "Variable"
         THEN IF inner_expr[1].name \in DOMAIN vs
              THEN DerefBound(vs[inner_expr[1].name].ptr, m, cur)
              ELSE AddressResult(NoValue, m, "Variable not found")
         ELSE AddressResult(NoValue, m, "Nested deref not supported")
    ELSE AddressResult(NoValue, m, "Cannot take address of this expression")

AddrNames == {"x", "p"}
AddrTypes == {IntType(16), PointerType(IntType(16))}
SlotOf(name) == IF name = "x" THEN 1 ELSE 2
Mutabilities == {"Let", "Var"}

RECURSIVE Derefs(_, _)
Derefs(n, leaf) == IF n = 0 THEN leaf ELSE DerefExpr(Derefs(n - 1, leaf))
Exprs == { Derefs(n, leaf) : n \in 0..MaxDeref,
           leaf \in {VariableExpr("x"), VariableExpr("p"), VariableExpr("q"), LiteralExpr} }

\* The environments: any of the names bound to a slot of any of the types.
Envs ==
    UNION { { [n \in D |-> VariableInfo(SlotPointer(c[n].ty, 1, SlotOf(n)), c[n].mutability)]
              : c \in [D -> [ty : AddrTypes, mutability : Mutabilities]] }
            : D \in SUBSET AddrNames }

\* A function whose entry block holds the slots of the environment.
SlotsOf(vs) ==
    LET slot(n) == <<Instr("alloca", vs[n].ptr, NoValue, NoValue)>> IN
    (IF "x" \in DOMAIN vs THEN slot("x") ELSE <<>>) \o
    (IF "p" \in DOMAIN vs THEN slot("p") ELSE <<>>)
ModuleOf(vs) ==
    [funcs |-> <<[name |-> "main", params |-> <<>>, ret |-> VoidType,
                  blocks |-> <<[label |-> "entry", instrs |-> SlotsOf(vs)]>>]>>,
     globals |-> <<>>, last_unique |-> 0, values |-> 2]

InitAddr ==
    /\ Idle
    /\ pc = "addr"
    /\ variables \in Envs
    /\ module = ModuleOf(variables)
    /\ builder = [fn |-> 1, blk |-> 1]
    /\ panic = ""
    /\ expr \in Exprs
    /\ address = NoValue
    /\ format = <<>> /\ arg_types = <<>> /\ result = <<>>

Resolve ==
    /\ pc = "addr"
    /\ LET r == generate_address_ir(expr, variables, module, builder) IN
       /\ address' = r.address
       /\ module' = r.module
       /\ panic' = r.panic
       /\ pc' = IF r.panic = "" THEN "done" ELSE "panic"
    /\ UNCHANGED <<drvVars, builder, variables, expr, fmtVars>>

NextAddr == Resolve

SpecAddr == InitAddr /\ [][NextAddr]_vars

(***************************************************************************)
(* Properties of wave_format_to_c                                          *)
(***************************************************************************)
\* The positions at which a placeholder starts.
Placeholders(fmt) == {i \in 1..(Len(fmt) - 1) : fmt[i] = "{" /\ fmt[i + 1] = "}"}
\* The number of the placeholder starting at i, counting from the left.
Rank(fmt, i) == Cardinality({j \in Placeholders(fmt) : j <= i})

\* The specifier the format translation table gives a type.
TableSpecifier(t) ==
    IF t[1].k = "float" THEN <<"%", "f">>
    ELSE IF t[1].k = "int" THEN <<"%", "d">>
    ELSE IF t[1].k = "ptr" /\ t[2] = [k |-> "int", n |-> 8] THEN <<"%", "s">>
    ELSE IF t[1].k = "ptr" THEN <<"%", "l", "d">>
    ELSE <<"%", "d">>

\* What position i of fmt contributes to the translation: the specifier of its
\* own argument type for a placeholder that has one, nothing for the closing
\* brace of such a placeholder, and the character itself otherwise.
Piece(fmt, types, i) ==
    IF i \in Placeholders(fmt) /\ Rank(fmt, i) <= Len(types)
    THEN TableSpecifier(types[Rank(fmt, i)])
    ELSE IF (i - 1) \in Placeholders(fmt) /\ Rank(fmt, i - 1) <= Len(types)
    THEN <<>>
    ELSE <<fmt[i]>>

RECURSIVE Pieces(_, _, _)
Pieces(fmt, types, i) ==
    IF i = 0 THEN <<>> ELSE Pieces(fmt, types, i - 1) \o Piece(fmt, types, i)

Translation(fmt, types) == Pieces(fmt, types, Len(fmt))

\* C3: every placeholder past the supplied argument types stays the two
\* characters "{}" in the output, the rest being translated as the table says;
\* with no argument types the output is the input.
C3_SurplusPlaceholdersStayLiteral ==
    pc = "done" =>
        /\ result = Translation(format, arg_types)
        /\ (arg_types = <<>> => result = format)

\* C4: with at least as many argument types as placeholders, the k-th
\* placeholder becomes the specifier of the k-th type and every other
\* character is copied in order.
C4_PlaceholdersTakeTheirSpecifier ==
    (pc = "done" /\ Len(arg_types) >= Cardinality(Placeholders(format)))
        => result = Translation(format, arg_types)

C4_Witness ==
    /\ pc = "done"
    /\ format = <<"{", "{", "}", "{", "}">>
    /\ arg_types = <<PointerType(IntType(32)), PointerType(IntType(8))>>
    /\ result = <<"{", "%", "l", "d", "%", "s">>

(***************************************************************************)
(* Properties of generate_ir                                               *)
(***************************************************************************)
IsFunctionNode(ast) == ast.node = "Function"
\* The function declarations of the input, in source order.
Declarations == SelectSeq(ast_nodes, IsFunctionNode)

BlockInstrs(block) == {block.instrs[k] : k \in 1..Len(block.instrs)}
AllInstrs(m) ==
    UNION { UNION { BlockInstrs(m.funcs[f].blocks[b]) : b \in 1..Len(m.funcs[f].blocks) }
            : f \in 1..Len(m.funcs) }
\* The values stored into the slot ptr.
StoredInto(m, ptr) == { ins.y : ins \in { j \in AllInstrs(m) : j.op = "store" /\ j.x = ptr } }
SomeBlockOpen == \E f \in 1..Len(module.funcs) : module.funcs[f].blocks # <<>>

\* A default literal of a kind the mapped type of the parameter does not take.
Incompatible(param) ==
    LET t == wave_type_to_llvm_type(param.param_type) IN
    \/ param.initial_value.kind = "Int" /\ t[1].k # "int"
    \/ param.initial_value.kind = "Float" /\ t[1].k # "float"
    \/ param.initial_value.kind = "Text" /\ t[1].k # "ptr"
HasIncompatibleDefault(decl) ==
    \E i \in 1..Len(decl.parameters) : Incompatible(decl.parameters[i])
UniqueParamNames(decl) ==
    \A i, j \in 1..Len(decl.parameters) :
        decl.parameters[i].name = decl.parameters[j].name => i = j

\* C1: a parameter whose default literal does not fit its type aborts the
\* lowering: the lowering never goes past it, so it is never bound to a slot
\* that received no store, and no module text is returned.
C1_DefaultMismatchFaults ==
    /\ (\E d \in 1..Len(Declarations) : HasIncompatibleDefault(Declarations[d]))
           => ir = <<>>
    /\ pc = "lower" =>
           \A i \in 1..Len(ast_nodes[fi].parameters) :
               LET param == ast_nodes[fi].parameters[i] IN
               Incompatible(param) =>
                   /\ pi <= i
                   /\ (i < pi /\ param.name \in DOMAIN variables) =>
                          StoredInto(module, variables[param.name].ptr) # {}

DuplicateNames ==
    \E i, j \in 1..Len(Declarations) : i # j /\ Declarations[i].name = Declarations[j].name

\* C2: two declarations of one name fault before any body is lowered; in a run
\* that completes, every declared function has its own entry in the table and
\* exactly one block, its entry block.
C2_DuplicateFunctionFaults ==
    /\ DuplicateNames => (~SomeBlockOpen /\ pc # "done")
    /\ pc = "done" =>
           \A d \in 1..Len(Declarations) :
               /\ functions[Declarations[d].name] = d
               /\ Len(module.funcs[d].blocks) = 1
               /\ module.funcs[d].blocks[1].label = "entry"

Terminators(block) == Len(SelectSeq(block.instrs, IsTerminator))

\* C5: once the functions are lowered every block ends with its one terminator:
\* the driver adds the implicit return only to a void function whose block no
\* statement has terminated, and never to a function with a return type.
C5_OneTerminatorPerBlock ==
    pc = "done" =>
        \A f \in 1..Len(module.funcs) : \A b \in 1..Len(module.funcs[f].blocks) :
            LET block == module.funcs[f].blocks[b] IN
            /\ Terminators(block) = 1
            /\ IsTerminator(block.instrs[Len(block.instrs)])

\* C6: before any entry block is opened the module holds the signature of
\* every declaration, in source order, and the table an entry for every
\* declared name, which is a function declared under that name.
C6_SignaturesBeforeBodies ==
    (SomeBlockOpen \/ pc \in {"bodies", "lower", "done"}) =>
        /\ Len(module.funcs) = Len(Declarations)
        /\ \A d \in 1..Len(Declarations) :
               /\ module.funcs[d].params = ParamTypes(Declarations[d].parameters)
               /\ module.funcs[d].ret = ReturnType(Declarations[d].return_type)
               /\ Declarations[d].name \in DOMAIN functions
               /\ functions[Declarations[d].name] \in 1..Len(Declarations)
               /\ Declarations[functions[Declarations[d].name]].name = Declarations[d].name
               /\ (\A e \in 1..(d - 1) : Declarations[e].name # Declarations[d].name)
                      => module.funcs[d].name = Declarations[d].name

\* The body of the first of two declarations is being lowered, and the
\* signature of the second, declared later, is in the module.
C6_Witness ==
    /\ pc = "lower"
    /\ fi = 1
    /\ Len(Declarations) = 2
    /\ Len(module.funcs) = 2
    /\ Declarations[2].name # Declarations[1].name
    /\ functions[Declarations[2].name] = 2
    /\ bi = 2

TextOnPointer(param) ==
    /\ param.initial_value.kind = "Text"
    /\ wave_type_to_llvm_type(param.param_type)[1].k = "ptr"

\* C8: a parameter with a text default on a pointer slot has a constant global
\* of its own, named param_str_<name>, holding the text and one zero byte, and
\* its slot is stored the address of the first element of that global. (Stated
\* for inputs without a duplicated function name.)
C8_TextDefaultHasNamedGlobal ==
    (pc = "lower" /\ ~DuplicateNames) =>
        \A i \in 1..Len(ast_nodes[fi].parameters) :
            LET param == ast_nodes[fi].parameters[i] IN
            (TextOnPointer(param) /\ i < pi) =>
                \E g \in 1..Len(module.globals) :
                    /\ module.globals[g].name = "param_str_" \o param.name
                    /\ module.globals[g].init = param.initial_value.s \o <<0>>
                    /\ module.globals[g].len = Len(param.initial_value.s) + 1
                    /\ module.globals[g].constant
                    /\ StoredInto(module, variables[param.name].ptr) = {GepValue(g)}
                    /\ \A j \in 1..(i - 1) :
                           TextOnPointer(ast_nodes[fi].parameters[j]) =>
                               GepValue(g) \notin
                                   StoredInto(module,
                                       variables[ast_nodes[fi].parameters[j].name].ptr)

\* The first body statement of the declaration at fi is about to be handed to
\* the statement emitter.
FirstStatementHanded ==
    /\ pc = "lower"
    /\ pi > Len(ast_nodes[fi].parameters)
    /\ bi = 1
    /\ Len(ast_nodes[fi].body) >= 1
    /\ ast_nodes[fi].body[1].node \in {"Variable", "Statement"}

\* C9: when the first body statement is handed over, the environment holds
\* one Let binding per parameter and nothing else, the slots distinct and in
\* declaration order; a parameter with a default has been stored its constant
\* and no argument, the i-th parameter without one the i-th positional
\* argument, which has the type the declaration gives the parameter.
C9_ParametersMaterialised ==
    (/\ FirstStatementHanded
     /\ UniqueParamNames(ast_nodes[fi])
     /\ ~HasIncompatibleDefault(ast_nodes[fi])) =>
        LET params == ast_nodes[fi].parameters IN
        /\ DOMAIN variables = {params[i].name : i \in 1..Len(params)}
        /\ \A i \in 1..Len(params) :
               LET info == variables[params[i].name]
                   stored == StoredInto(module, info.ptr)
               IN /\ info.mutability = "Let"
                  /\ info.ptr.vk = "alloca"
                  /\ \A j \in 1..(i - 1) : variables[params[j].name].ptr.b < info.ptr.b
                  /\ IF params[i].initial_value.kind = "None"
                     THEN \E fn \in 1..Len(module.funcs) :
                              stored = {[vk |-> "param",
                                         ty |-> wave_type_to_llvm_type(params[i].param_type),
                                         a |-> fn, b |-> i - 1]}
                     ELSE /\ stored # {}
                          /\ \A v \in stored : v.vk \in {"const_int", "const_float", "gep"}

\* The names the lowering of the declaration at fi has bound so far.
BoundSoFar ==
    {ast_nodes[fi].parameters[i].name : i \in 1..(pi - 1)} \cup
    {ast_nodes[fi].body[k].name :
        k \in {k \in 1..(bi - 1) : ast_nodes[fi].body[k].node = "Variable"}}

PerFunction(st) ==
    <<st.variables, st.string_counter, st.loop_exit_stack, st.loop_continue_stack>>

\* C10: the lowering of a function starts from an empty environment, empty
\* stacks and the counter at 0; the environment holds only the names bound
\* while lowering this function; the first statement of a body is passed the
\* counter at 0, empty stacks and the parameters alone, every later one what
\* the statement before it left.
C10_PerFunctionState ==
    /\ (pc = "lower" /\ pi = 1 /\ bi = 1) =>
           /\ variables = <<>>
           /\ string_counter = 0
           /\ loop_exit_stack = <<>>
           /\ loop_continue_stack = <<>>
    /\ pc = "lower" => DOMAIN variables = BoundSoFar
    /\ \A k \in 1..Len(calls) :
           LET c == calls[k] IN
           IF c.stmt = 1
           THEN /\ c.passed.string_counter = 0
                /\ c.passed.loop_exit_stack = <<>>
                /\ c.passed.loop_continue_stack = <<>>
                /\ DOMAIN c.passed.variables =
                       {ast_nodes[c.decl].parameters[i].name :
                           i \in 1..Len(ast_nodes[c.decl].parameters)}
           ELSE /\ k > 1
                /\ calls[k - 1].decl = c.decl
                /\ calls[k - 1].stmt = c.stmt - 1
                /\ PerFunction(c.passed) = PerFunction(calls[k - 1].left)

\* A first function whose statements bound a name and advanced the counter,
\* then the first statement of a second function.
C10_Witness ==
    /\ Len(calls) = 3
    /\ calls[2].decl = 1
    /\ calls[2].left.string_counter = 1
    /\ "w" \in DOMAIN calls[2].left.variables
    /\ calls[3].decl = 2
    /\ "w" \notin DOMAIN calls[3].passed.variables

(***************************************************************************)
(* Properties of generate_address_ir                                       *)
(***************************************************************************)
Resolved == pc \in {"done", "panic"}
\* The instructions the call emitted, after the slots of the environment.
EmittedByCall ==
    SubSeq(module.funcs[1].blocks[1].instrs, Len(SlotsOf(variables)) + 1,
           Len(module.funcs[1].blocks[1].instrs))
IsBareVariable(e) == Len(e) = 1 /\ e[1].tag = "Variable"
IsDerefOfVariable(e) == Len(e) = 2 /\ e[1].tag = "Deref" /\ e[2].tag = "Variable"
Bound(name) == name \in DOMAIN variables
Faulted(msg) == pc = "panic" /\ panic = msg /\ address = NoValue
OneLoadFrom(ptr) ==
    /\ Len(EmittedByCall) = 1
    /\ EmittedByCall[1].op = "load"
    /\ EmittedByCall[1].x = ptr

\* The outcomes on which the code and C7 agree: everything but the
\* dereference of a bound variable.
OtherOutcomes ==
    /\ (IsBareVariable(expr) /\ Bound(expr[1].name)) =>
           /\ pc = "done"
           /\ address = variables[expr[1].name].ptr
           /\ EmittedByCall = <<>>
    /\ (IsBareVariable(expr) /\ ~Bound(expr[1].name)) =>
           (Faulted("Variable not found") /\ EmittedByCall = <<>>)
    /\ (IsDerefOfVariable(expr) /\ ~Bound(expr[2].name)) =>
           (Faulted("Variable not found") /\ EmittedByCall = <<>>)
    /\ (expr[1].tag = "Deref" /\ expr[2].tag # "Variable") =>
           (Faulted("Nested deref not supported") /\ EmittedByCall = <<>>)
    /\ expr[1].tag \notin {"Variable", "Deref"} =>
           (Faulted("Cannot take address of this expression") /\ EmittedByCall = <<>>)

\* C7 as stated: the dereference of any bound variable emits one load from
\* its slot and returns the loaded pointer.
C7_AddressOutcomes ==
    Resolved =>
        /\ OtherOutcomes
        /\ (IsDerefOfVariable(expr) /\ Bound(expr[2].name)) =>
               /\ pc = "done"
               /\ OneLoadFrom(variables[expr[2].name].ptr)
               /\ address = EmittedByCall[1].res

\* C7 as amended: the dereference of a bound variable emits one load from its
\* slot; it returns the loaded pointer when the slot holds a pointer, and
\* aborts, returning no address, when the slot holds any other value.
AmendedOutcomes ==
    Resolved =>
        /\ OtherOutcomes
        /\ (IsDerefOfVariable(expr) /\ Bound(expr[2].name)) =>
               LET ptr == variables[expr[2].name].ptr IN
               /\ OneLoadFrom(ptr)
               /\ IF ptr.ty[2].k = "ptr"
                  THEN /\ pc = "done"
                       /\ address = EmittedByCall[1].res
                       /\ address.vk = "load"
                       /\ address.ty = Tail(ptr.ty)
                  ELSE Faulted("expected the PointerValue variant")
C7_AddressOutcomesAmended ==
    /\ []AmendedOutcomes
    /\ [][variables' = variables]_vars

\* The dereference of a variable bound to a slot that holds a pointer.
C7_Witness ==
    /\ pc = "done"
    /\ expr = DerefExpr(VariableExpr("p"))
    /\ Bound("p")
    /\ address.vk = "load"
    /\ Len(EmittedByCall) = 1

====
